---- MODULE Spec2Model ----
(***************************************************************************)
(* Potential-field extrapolation of synthesizAR                            *)
(* (src/synthesizAR/extrapolate/extrapolators.py).                         *)
(*                                                                         *)
(* Real numbers are fixed-point integers: a value v is stored as v * FP,   *)
(* a square root is the integer square root, a division truncates toward   *)
(* zero.  Lengths are in grid units (delta.x, delta.y, delta.z are small   *)
(* positive integers), field values are small integers.                   *)
(* Arrays are records [shape, data]; data is a function of 0-based index   *)
(* tuples, as in numpy.                                                    *)
(***************************************************************************)
EXTENDS Integers, Sequences, FiniteSets, TLC

VARIABLES
    pc,           \* position: "new", "ready", "failed", "crashed", or a harness position
    magnetogram,  \* the caller's map: [nx, ny, data, bunit, corners, written]
    args,         \* constructor arguments: [width_z, width_z_unit, shape_z, shape_z_unit]
    los,          \* observer position in the local frame (to_local of observer_coordinate)
    self,         \* attributes of the PotentialField: [shape, range, width, delta]
    boundary,     \* array last returned by project_boundary
    phi,          \* array last returned by calculate_phi (or handed to calculate_field)
    Bfield,       \* field last returned by calculate_field
    err,          \* exception raised by the last call, "" when it returned
    log,          \* internal calls made so far, in order
    returned,     \* what the extrapolate() calls so far returned: [value, calls], in order
    harness       \* the inputs and results of a harness of one function, NoHarness elsewhere

vars == <<pc, magnetogram, args, los, self, boundary, phi, Bfield, err, log, returned, harness>>

----------------------------------------------------------------------------
(* Bounds of the model *)

MaxIndex == 2       \* grid and boundary indices of the kernel harness: 0..MaxIndex
MaxDelta == 2       \* grid spacings: 1..MaxDelta
MaxCalls == 2       \* extrapolate() calls recorded per object
MaxV == 2           \* flat magnetograms of the end-to-end runs: values -MaxV..MaxV
MaxStray == 1       \* calls whose stray writes change the magnetogram's data

Indices == 0..MaxIndex
Deltas == 1..MaxDelta

(* Program constants *)

FP == 1000          \* fixed-point scale of the model's real numbers
InvSqrtTwoPi == 399 \* 1/sqrt(2 pi) * FP, the factor of z_depth
InvTwoPi == 159     \* 1/(2 pi) * FP, the factor of the kernel

None == [shape |-> <<>>, data |-> <<>>]
NoHarness == [called |-> FALSE]

----------------------------------------------------------------------------
(* Arithmetic *)

Abs(a) == IF a < 0 THEN -a ELSE a

\* float division, truncated toward zero; b # 0
Div(a, b) ==
    LET q == Abs(a) \div Abs(b)
    IN  IF (a < 0) = (b < 0) THEN q ELSE -q

RECURSIVE SqrtSearch(_, _, _)
SqrtSearch(n, lo, hi) ==
    IF lo >= hi THEN lo
    ELSE LET mid == (lo + hi + 1) \div 2
         IN  IF mid * mid <= n THEN SqrtSearch(n, mid, hi)
                               ELSE SqrtSearch(n, lo, mid - 1)

\* np.sqrt on a fixed-point square: the largest r with r*r <= n
Sqrt(n) == SqrtSearch(n, 0, 46340)

Dot(a, b) == a[1] * b[1] + a[2] * b[2] + a[3] * b[3]

----------------------------------------------------------------------------
(* greens_function, extrapolators.py 226-236.  x, y, z, x_grid, y_grid and *)
(* z_depth are fixed-point lengths, l_hat a fixed-point unit vector.       *)

\* l_hat = line_of_sight / sqrt(sum(line_of_sight**2)), line 144
l_hat_of(v) ==
    LET norm == Sqrt(Dot(v, v) * FP * FP)
    IN  <<Div(v[1] * FP * FP, norm), Div(v[2] * FP * FP, norm), Div(v[3] * FP * FP, norm)>>

\* a variant without the virtual depth: the sources lie in the plane z = 0
z_depth_mutant(dz) == 0

\* z_depth = -delta.z / sqrt(2 pi), line 140
z_depth_of(dz) == -(dz * InvSqrtTwoPi)

\* the intermediate values of one evaluation
greens_terms(x, y, z, x_grid, y_grid, z_depth, l_hat) ==
    LET Rx == x - x_grid
        Ry == y - y_grid
        Rz == z - z_depth
        R_mag == Sqrt(Rx * Rx + Ry * Ry + Rz * Rz)
        l_dot_R == Div(l_hat[1] * Rx + l_hat[2] * Ry + l_hat[3] * Rz, FP)
        mu_dot_R == Rz - Div(l_dot_R * l_hat[3], FP)
    IN  [Rx |-> Rx, Ry |-> Ry, Rz |-> Rz, R_mag |-> R_mag, l_dot_R |-> l_dot_R,
         mu_dot_R |-> mu_dot_R,
         den1 |-> R_mag,
         den2 |-> R_mag * (R_mag + l_dot_R)]

\* a division by zero raises ZeroDivisionError in the compiled function
greens_raises(t) == t.den1 = 0 \/ t.den2 = 0

\* a variant that grows with the distance
greens_value_mutant(t, l_hat) == Div(InvTwoPi * t.R_mag, FP)

\* 1/(2 pi) * (term1 + term2), for an evaluation that does not raise
greens_value(t, l_hat) ==
    LET term1 == Div(l_hat[3] * FP, t.den1)
        term2 == Div(Div(t.mu_dot_R * FP, t.R_mag) * FP, t.R_mag + t.l_dot_R)
    IN  Div(InvTwoPi * (term1 + term2), FP)

----------------------------------------------------------------------------
(* Arrays *)

Idx2(shape) == (0..(shape[1] - 1)) \X (0..(shape[2] - 1))
Idx3(shape) == (0..(shape[1] - 1)) \X (0..(shape[2] - 1)) \X (0..(shape[3] - 1))

\* np.zeros(shape)
zeros3(shape) == [shape |-> shape, data |-> [idx \in Idx3(shape) |-> 0]]

RECURSIVE SumRange(_, _, _)
\* f[lo] + ... + f[hi]
SumRange(f, lo, hi) ==
    IF lo > hi THEN 0
    ELSE IF lo = hi THEN f[lo]
    ELSE LET mid == (lo + hi) \div 2
         IN  SumRange(f, lo, mid) + SumRange(f, mid + 1, hi)

\* f[0] + ... + f[n-1]
SumTo(f, n) == SumRange(f, 0, n - 1)

----------------------------------------------------------------------------
(* PotentialField.project_boundary, lines 103-122.                         *)
(* The magnetogram is taken unrotated: pixel_to_world followed by to_local *)
(* puts pixel (i_x, i_y) at (i_x, i_y) pixel pitches from the left corner, *)
(* and range_x, range_y run from the first to the last pixel centre, so    *)
(* that the nodes of np.linspace fall on pixel centres.                    *)

\* the n-th pixel of lines 109-110: (p_x.flatten()[n], p_y.flatten()[n]) for
\* p_y, p_x = np.indices((Nx, Ny))
pixels(Nx, Ny, n) == <<n % Ny, n \div Ny>>

\* to_local(pixel_to_world(i_x, i_y)), in pixel pitches
pixel_to_local(px) == px

\* magnetogram.data.flatten()[n], line 115; data has ny rows of nx values
values(m, n) == m.data[<<n \div m.nx, n % m.nx>>]

\* griddata(points, values, node, fill_value=0.): linear interpolation returns
\* the value of the point that falls on the node, and 0 outside the convex hull
\* of the points
griddata(Nx, Ny, m, node) ==
    LET hit == {n \in 0..(Nx * Ny - 1) : pixel_to_local(pixels(Nx, Ny, n)) = node}
    IN  IF hit = {} THEN 0 ELSE values(m, CHOOSE n \in hit : TRUE)

\* the unit of the data: a missing 'bunit' raises KeyError, an invalid one ValueError
bunit_error(m) ==
    IF m.bunit = "" THEN "KeyError"
    ELSE IF m.bunit = "G" THEN "" ELSE "ValueError"

\* x_grid, y_grid = np.meshgrid(x_new, y_new) have Ny rows and Nx columns
meshgrid_shape(Nx, Ny) == <<Ny, Nx>>

project_boundary(s, m) ==
    LET Nx == s.shape[1]
        Ny == s.shape[2]
        shp == meshgrid_shape(Nx, Ny)
    IN  IF bunit_error(m) # "" THEN [err |-> bunit_error(m), value |-> None]
        ELSE [err |-> "",
              value |-> [shape |-> shp,
                         data |-> [idx \in Idx2(shp) |->
                                     griddata(Nx, Ny, m, <<idx[2], idx[1]>>)]]]

----------------------------------------------------------------------------
(* calculate_phi, lines 211-223, compiled without bounds checks: phi is the *)
(* C-contiguous buffer of np.zeros((shape.x, shape.y, shape.z)) and         *)
(* phi[j, i, k] is the cell at offset (j * shape.y + i) * shape.z + k.      *)

offset(shape, j, i, k) == (j * shape[2] + i) * shape[3] + k

size(shape) == shape[1] * shape[2] * shape[3]

\* the grid point (i, j, k) of the flat loop position n of lines 213-215
grid_point(shape, n) ==
    [i |-> n \div (shape[2] * shape[3]),
     j |-> (n \div shape[3]) % shape[2],
     k |-> n % shape[3]]

\* the boundary cell (i_prime, j_prime) of the flat loop position n of lines 217-218
boundary_cell(shape, n) == [i_prime |-> n \div shape[2], j_prime |-> n % shape[2]]

kernel(shape, delta, l_hat, g, b) ==
    greens_terms(g.i * delta[1] * FP, g.j * delta[2] * FP, g.k * delta[3] * FP,
                 b.i_prime * delta[1] * FP, b.j_prime * delta[2] * FP,
                 z_depth_of(delta[3]), l_hat)

\* a variant that is not linear in the boundary value
term_mutant(bval, grn, delta) == (bval + 1) * grn * delta[1] * delta[2]

\* what line 221 adds to phi[j, i, k] for one boundary cell
term(bval, grn, delta) == bval * grn * delta[1] * delta[2]

RECURSIVE accumulate(_, _, _, _, _, _, _)
\* lines 217-221 for grid point g over the boundary cells at loop positions
\* lo..hi: what they add to phi[j, i, k], and whether an evaluation of the
\* kernel divides by zero
accumulate(b, shape, delta, l_hat, g, lo, hi) ==
    IF lo = hi
    THEN LET c == boundary_cell(shape, lo)
             t == kernel(shape, delta, l_hat, g, c)
         IN  IF greens_raises(t) THEN [raises |-> TRUE, sum |-> 0]
             ELSE [raises |-> FALSE,
                   sum |-> term(b.data[<<c.j_prime, c.i_prime>>],
                                greens_value(t, l_hat), delta)]
    ELSE LET mid == (lo + hi) \div 2
             left == accumulate(b, shape, delta, l_hat, g, lo, mid)
             right == accumulate(b, shape, delta, l_hat, g, mid + 1, hi)
         IN  [raises |-> left.raises \/ right.raises, sum |-> left.sum + right.sum]

RECURSIVE loops(_, _, _, _, _, _)
\* lines 213-221 for the grid points at loop positions lo..hi: entry m is what
\* the m-th of them adds to its phi[j, i, k]
loops(b, shape, delta, l_hat, lo, hi) ==
    IF lo = hi
    THEN << accumulate(b, shape, delta, l_hat, grid_point(shape, lo),
                       0, shape[1] * shape[2] - 1) >>
    ELSE LET mid == (lo + hi) \div 2
         IN  loops(b, shape, delta, l_hat, lo, mid) \o
             loops(b, shape, delta, l_hat, mid + 1, hi)

\* some write phi[j, i, k] falls outside the buffer
phi_stray(shape) ==
    \E n \in 0..(size(shape) - 1) :
        LET g == grid_point(shape, n) IN offset(shape, g.j, g.i, g.k) >= size(shape)

\* the buffer after the loops: every cell holds what the grid points whose
\* phi[j, i, k] is that cell have added to it; strays maps every offset past
\* the end of the buffer that a phi[j, i, k] reaches to what is added there
calculate_phi(phi_in, b, delta, shape, l_hat) ==
    LET acc == loops(b, shape, delta, l_hat, 0, size(shape) - 1)
        at == [n \in 0..(size(shape) - 1) |->
                  LET g == grid_point(shape, n) IN offset(shape, g.j, g.i, g.k)]
        out == {n \in 0..(size(shape) - 1) : at[n] >= size(phi_in.shape)}
    IN  IF \E n \in 1..size(shape) : acc[n].raises
        THEN [err |-> "ZeroDivisionError", value |-> None, strays |-> <<>>]
        ELSE [err |-> "",
              strays |-> [o \in {at[n] : n \in out} |->
                            SumTo([n \in 0..(size(shape) - 1) |->
                                     IF at[n] = o THEN acc[n + 1].sum ELSE 0], size(shape))],
              value |->
                [shape |-> phi_in.shape,
                 data |-> [idx \in Idx3(phi_in.shape) |->
                    LET o == (idx[1] * phi_in.shape[2] + idx[2]) * phi_in.shape[3] + idx[3]
                    IN  phi_in.data[idx] +
                        SumTo([n \in 0..(size(shape) - 1) |->
                                 IF at[n] = o THEN acc[n + 1].sum ELSE 0], size(shape))]]]

\* PotentialField.calculate_phi, lines 132-152
PotentialField_calculate_phi(s, m, l) ==
    LET pb == project_boundary(s, m)
        r == calculate_phi(zeros3(s.shape), pb.value, s.delta, s.shape, l_hat_of(l))
    IN  IF pb.err # ""
        THEN [err |-> pb.err, boundary |-> None, value |-> None, stray |-> FALSE,
              strays |-> <<>>]
        ELSE [err |-> r.err, boundary |-> pb.value, value |-> r.value,
              stray |-> phi_stray(s.shape), strays |-> r.strays]

----------------------------------------------------------------------------
(* PotentialField.calculate_field, lines 155-200.  Bfield[:, :, :, i] is   *)
(* the function Bf[i] of index triples; axis a of the array is position    *)
(* a + 1 of an index triple.                                               *)

\* the index with position axis moved by d
Shift(idx, axis, d) == [idx EXCEPT ![axis] = @ + d]

\* the cells of the slice [2:-2, 2:-2, 2:-2]
Interior(shape, idx) == \A a \in 1..3 : idx[a] >= 2 /\ idx[a] <= shape[a] - 3

\* self.delta.x, .y, .z divide components 0, 1, 2 (lines 182, 185, 188)
stencil_delta(delta, i) == delta[i + 1]

\* a variant that returns +grad(phi)
gradient_mutant(p, delta, i, idx) ==
    LET a == i + 1
        d == p.data[Shift(idx, a, -2)] - 8 * p.data[Shift(idx, a, -1)]
             + 8 * p.data[Shift(idx, a, 1)] - p.data[Shift(idx, a, 2)]
    IN  Div(Div(d, 12), stencil_delta(delta, i))

\* the five-point difference along axis i, lines 180-188
gradient(p, delta, i, idx) ==
    LET a == i + 1
        d == p.data[Shift(idx, a, -2)] - 8 * p.data[Shift(idx, a, -1)]
             + 8 * p.data[Shift(idx, a, 1)] - p.data[Shift(idx, a, 2)]
    IN  Div(Div(-d, 12), stencil_delta(delta, i))

\* Bfield after lines 178-188
stencil(p, delta) ==
    [i \in 0..2 |-> [idx \in Idx3(p.shape) |->
                       IF Interior(p.shape, idx) THEN gradient(p, delta, i, idx) ELSE 0]]

\* a numpy index along an axis of length N
norm_index(N, j) == IF j < 0 THEN N + j ELSE j

\* a variant that copies from the next cell inward
copy_source_mutant(j, src) == IF j < 0 THEN j - 1 ELSE j + 1

\* Bfield[..., j, ..., i] = Bfield[..., src, ..., i] along position axis
copy_source(j, src) == src

copy(f, shape, axis, j, src) ==
    LET t == norm_index(shape[axis], j)
        u == norm_index(shape[axis], copy_source(j, src))
    IN  [idx \in DOMAIN f |-> IF idx[axis] = t THEN f[[idx EXCEPT ![axis] = u]] ELSE f[idx]]

\* a variant that leaves the cells at index 1 as they are
copies_mutant ==
    <<  <<1, 0, 2>>, <<2, 0, 2>>, <<3, 0, 2>>,
        <<1, 1, 1>>, <<2, 1, 1>>, <<3, 1, 1>>,
        <<1, -2, -3>>, <<2, -2, -3>>, <<3, -2, -3>>,
        <<1, -1, -3>>, <<2, -1, -3>>, <<3, -1, -3>>  >>

\* the assignments of lines 191-198 for one component, in the code's order:
\* <<axis position, target index, source index>>
copies ==
    <<  <<1, 0, 2>>, <<2, 0, 2>>, <<3, 0, 2>>,
        <<1, 1, 2>>, <<2, 1, 2>>, <<3, 1, 2>>,
        <<1, -2, -3>>, <<2, -2, -3>>, <<3, -2, -3>>,
        <<1, -1, -3>>, <<2, -1, -3>>, <<3, -1, -3>>  >>

RECURSIVE apply_copies(_, _, _, _)
\* f after the first n assignments of ops
apply_copies(f, shape, ops, n) ==
    IF n = 0 THEN f
    ELSE LET op == ops[n]
         IN  copy(apply_copies(f, shape, ops, n - 1), shape, op[1], op[2], op[3])

\* lines 189-198: the boundary conditions of all three components
boundary_conditions(Bf, shape) ==
    [i \in 0..2 |-> apply_copies(Bf[i], shape, copies, Len(copies))]

\* Bfield[2, ...] and Bfield[-3, ...] need three cells along every axis
index_error(shape) == \E a \in 1..3 : shape[a] < 3

\* SpatialPair(x=Bfield[:, :, :, 1], y=Bfield[:, :, :, 0], z=Bfield[:, :, :, 2])
spatial_pair(Bf, shape) ==
    [x |-> [shape |-> shape, data |-> Bf[1]],
     y |-> [shape |-> shape, data |-> Bf[0]],
     z |-> [shape |-> shape, data |-> Bf[2]]]

calculate_field(s, m, p) ==
    IF bunit_error(m) # "" THEN [err |-> bunit_error(m), value |-> None]
    ELSE IF index_error(p.shape) THEN [err |-> "IndexError", value |-> None]
    ELSE [err |-> "",
          value |-> spatial_pair(boundary_conditions(stencil(p, s.delta), p.shape), p.shape)]

----------------------------------------------------------------------------
(* PotentialField: construction and the public methods *)

\* magnetogram data of ny rows and nx columns
pattern_data(nx, ny, pattern, V) ==
    [idx \in Idx2(<<ny, nx>>) |->
        CASE pattern = "zero" -> 0
          [] pattern = "flat" -> V
          [] pattern = "ramp" -> V * (1 + idx[1] * nx + idx[2])]

\* a map of nx by ny pixels whose corners are left and right in the local frame;
\* written counts the calls that have changed its data since it was made
Magnetogram(nx, ny, pattern, V, bunit, left, right) ==
    [nx |-> nx, ny |-> ny, data |-> pattern_data(nx, ny, pattern, V), bunit |-> bunit,
     left_corner |-> left, right_corner |-> right, written |-> 0]

\* @u.quantity_input on __init__, lines 40-41
units_error(a) == a.width_z_unit # "cm" \/ a.shape_z_unit # "pixel"

\* _calculate_range, lines 96-101
calculate_range(m) ==
    [x |-> <<m.left_corner[1], m.right_corner[1]>>,
     y |-> <<m.left_corner[2], m.right_corner[2]>>]

\* the attributes set by __init__, lines 42-51
PotentialField_init(m, a) ==
    LET r == calculate_range(m)
        range_z == <<0, a.width_z>>
        width == <<r.x[2] - r.x[1], r.y[2] - r.y[1], a.width_z>>
        shape == <<m.nx, m.ny, a.shape_z>>
    IN  [shape |-> shape,
         range |-> <<r.x, r.y, range_z>>,
         width |-> width,
         delta |-> <<Div(width[1], shape[1]), Div(width[2], shape[2]),
                     Div(width[3], shape[3])>>]

Construct ==
    /\ pc = "new"
    /\ IF units_error(args)
       THEN /\ pc' = "failed"
            /\ err' = "UnitsError"
            /\ self' = self
       ELSE /\ pc' = "ready"
            /\ err' = ""
            /\ self' = PotentialField_init(magnetogram, args)
    /\ log' = <<"__init__">>
    /\ UNCHANGED <<magnetogram, args, los, boundary, phi, Bfield, returned, harness>>

ProjectBoundary ==
    /\ pc = "ready"
    /\ \E r \in {project_boundary(self, magnetogram)} :
           /\ err' = r.err
           /\ boundary' = IF r.err = "" THEN r.value ELSE boundary
    /\ log' = <<"project_boundary">>
    /\ UNCHANGED <<pc, magnetogram, args, los, self, phi, Bfield, returned, harness>>

\* A write outside the buffer is undefined behaviour.  The process is killed,
\* or the writes land in memory of the process: in memory no array of this
\* model lives in, or in the magnetogram's data, whose buffer then begins at
\* some offset B past the start of phi's.  The data are whole gauss here, so
\* what is added to a cell is rounded away from zero.
stray_addend(a) ==
    IF a > 0 THEN Div(a - 1, FP) + 1 ELSE IF a < 0 THEN -(Div(-a - 1, FP) + 1) ELSE 0

\* the magnetogram after the stray writes of one call, its data at offset B
hit(m, B, strays) ==
    LET d == [idx \in DOMAIN m.data |->
                LET o == B + idx[1] * m.nx + idx[2]
                IN  IF o \in DOMAIN strays
                    THEN m.data[idx] + stray_addend(strays[o]) ELSE m.data[idx]]
    IN  IF d = m.data THEN m ELSE [m EXCEPT !.data = d, !.written = @ + 1]

\* the magnetograms a call with these stray writes can leave behind
stray_outcomes(m, strays) ==
    {m} \cup (IF m.written < MaxStray THEN {hit(m, B, strays) : B \in DOMAIN strays} ELSE {})

CalculatePhi ==
    /\ pc = "ready"
    /\ \E r \in {PotentialField_calculate_phi(self, magnetogram, los)} :
          \/ /\ r.stray
             /\ pc' = "crashed"
             /\ err' = "SIGSEGV"
             /\ UNCHANGED <<magnetogram, boundary, phi>>
          \/ /\ pc' = pc
             /\ err' = r.err
             /\ magnetogram' \in stray_outcomes(magnetogram, r.strays)
             /\ boundary' = IF r.boundary # None THEN r.boundary ELSE boundary
             /\ phi' = IF r.err = "" THEN r.value ELSE phi
    /\ log' = <<"project_boundary", "calculate_phi">>
    /\ UNCHANGED <<args, los, self, Bfield, returned, harness>>

CalculateField ==
    /\ pc = "ready"
    /\ phi # None
    /\ \E r \in {calculate_field(self, magnetogram, phi)} :
           /\ err' = r.err
           /\ Bfield' = IF r.err = "" THEN r.value ELSE Bfield
    /\ log' = <<"calculate_field">>
    /\ UNCHANGED <<pc, magnetogram, args, los, self, boundary, phi, returned, harness>>

\* extrapolate, lines 202-205
extrapolate(s, m, l) ==
    LET p == PotentialField_calculate_phi(s, m, l)
        f == calculate_field(s, m, p.value)
    IN  IF p.err # ""
        THEN [err |-> p.err, value |-> None, stray |-> FALSE, strays |-> <<>>,
              calls |-> IF p.boundary = None THEN <<"project_boundary">>
                        ELSE <<"project_boundary", "calculate_phi">>]
        ELSE [err |-> f.err, value |-> f.value, stray |-> p.stray, strays |-> p.strays,
              calls |-> <<"project_boundary", "calculate_phi", "calculate_field">>]

Extrapolate ==
    /\ pc = "ready"
    /\ Len(returned) < MaxCalls
    /\ \E r \in {extrapolate(self, magnetogram, los)} :
          \/ /\ r.stray
             /\ pc' = "crashed"
             /\ err' = "SIGSEGV"
             /\ log' = <<"project_boundary", "calculate_phi">>
             /\ UNCHANGED <<magnetogram, returned>>
          \/ /\ pc' = pc
             /\ err' = r.err
             /\ log' = r.calls
             /\ magnetogram' \in stray_outcomes(magnetogram, r.strays)
             /\ returned' = IF r.err = ""
                            THEN Append(returned, [value |-> r.value, calls |-> r.calls])
                            ELSE returned
    /\ UNCHANGED <<args, los, self, boundary, phi, Bfield, harness>>

\* as_yt, lines 53-59: hands the field and self.range to the yt converter
AsYt ==
    /\ pc = "ready"
    /\ Bfield # None
    /\ err' = ""
    /\ log' = <<"as_yt">>
    /\ UNCHANGED <<pc, magnetogram, args, los, self, boundary, phi, Bfield, returned, harness>>

\* trace_fieldlines, lines 61-94: as_yt, then project_boundary, then the tracer
TraceFieldlines ==
    /\ pc = "ready"
    /\ Bfield # None
    /\ \E r \in {project_boundary(self, magnetogram)} :
           /\ err' = r.err
           /\ boundary' = IF r.err = "" THEN r.value ELSE boundary
           /\ log' = IF r.err = "" THEN <<"as_yt", "project_boundary", "trace_fieldlines">>
                     ELSE <<"as_yt", "project_boundary">>
    /\ UNCHANGED <<pc, magnetogram, args, los, self, phi, Bfield, returned, harness>>

Next ==
    \/ Construct
    \/ ProjectBoundary
    \/ CalculatePhi
    \/ CalculateField
    \/ Extrapolate
    \/ AsYt
    \/ TraceFieldlines

\* the facade on small magnetograms, square and not, with good and bad units
FacadeSizes == {<<2, 2>>, <<3, 2>>, <<2, 3>>, <<3, 3>>}
ShapesZ == {1, 3}
FacadeDeltas == {<<1, 1, 1>>, <<2, 1, 3>>}
FacadeLos == {<<0, 0, 1>>, <<1, 0, 1>>, <<0, 0, -1>>}
Patterns == {"zero", "ramp"}

Arguments(shape_z, dz, wu, su) ==
    [width_z |-> shape_z * dz, width_z_unit |-> wu, shape_z |-> shape_z, shape_z_unit |-> su]

Init ==
    /\ pc = "new"
    /\ \E n \in FacadeSizes, nz \in ShapesZ, d \in FacadeDeltas,
          pattern \in Patterns,
          u \in {<<"G", "cm", "pixel">>, <<"", "cm", "pixel">>, <<"gauss?", "cm", "pixel">>,
                 <<"G", "s", "pixel">>, <<"G", "cm", "cm">>, <<"", "s", "pixel">>} :
          /\ magnetogram = Magnetogram(n[1], n[2], pattern, 1, u[1], <<0, 0>>,
                                       <<n[1] * d[1], n[2] * d[2]>>)
          /\ args = Arguments(nz, d[3], u[2], u[3])
    /\ los \in FacadeLos
    /\ self = None /\ boundary = None /\ phi = None /\ Bfield = None
    /\ err = "" /\ log = <<>> /\ returned = <<>>
    /\ harness = NoHarness

Spec == Init /\ [][Next]_vars

\* calculate_phi has just returned a potential
PotentialReturned ==
    pc = "ready" /\ log = <<"project_boundary", "calculate_phi">> /\ err = ""

\* C2: for a boundary field that is zero in every cell, the potential computed
\* by calculate_phi is exactly zero in every cell of the (Nx, Ny, Nz) grid,
\* for every grid shape, spacing and line of sight for which the kernel is
\* finite.
C2_ZeroBoundaryZeroPotential ==
    (PotentialReturned /\ \A c \in DOMAIN boundary.data : boundary.data[c] = 0) =>
        /\ phi.shape = self.shape
        /\ \A idx \in Idx3(self.shape) : phi.data[idx] = 0

C2_Witness ==
    /\ PotentialReturned
    /\ \A c \in DOMAIN boundary.data : boundary.data[c] = 0
    /\ self.shape = <<3, 2, 3>>
    /\ self.delta = <<2, 1, 3>>
    /\ los = <<1, 0, 1>>
    /\ \A idx \in Idx3(self.shape) : phi.data[idx] = 0

\* C6: for every grid shape (Nx, Ny, Nz), Nx # Ny included, the boundary field
\* returned by project_boundary has shape (Nx, Ny), the potential returned by
\* calculate_phi has shape (Nx, Ny, Nz), and each component returned by
\* calculate_field has shape (Nx, Ny, Nz).
C6_ArraysHaveGridShape ==
    /\ boundary # None => boundary.shape = <<self.shape[1], self.shape[2]>>
    /\ phi # None => phi.shape = self.shape
    /\ Bfield # None =>
          Bfield.x.shape = self.shape /\ Bfield.y.shape = self.shape
              /\ Bfield.z.shape = self.shape

\* C7: a width_z that is not a length, a shape_z that is not in pixels, or a
\* magnetogram whose 'bunit' is missing or not a valid unit makes __init__
\* fail, before project_boundary, calculate_phi or calculate_field can run.
C7_BadUnitsFailConstruction ==
    (pc # "new" /\ (units_error(args) \/ bunit_error(magnetogram) # "")) => pc = "failed"

----------------------------------------------------------------------------
(* End-to-end runs: a flat magnetogram of value V is extrapolated onto a    *)
(* grid of as many cells a side, again and again.                          *)

E2EShapes == {<<4, 4, 4>>, <<5, 5, 5>>}
E2ELos == {<<0, 0, 1>>, <<1, 0, 1>>, <<0, -1, 2>>}
E2EDeltas == {<<1, 1, 1>>, <<2, 2, 1>>}

InitE2E ==
    /\ pc = "new"
    /\ \E shape \in E2EShapes, V \in (-MaxV..MaxV) \ {0}, d \in E2EDeltas :
          /\ magnetogram = Magnetogram(shape[1], shape[2], "flat", V, "G", <<0, 0>>,
                                       <<shape[1] * d[1], shape[2] * d[2]>>)
          /\ args = Arguments(shape[3], d[3], "cm", "pixel")
          /\ los \in IF shape = <<4, 4, 4>> THEN E2ELos ELSE {<<0, 0, 1>>}
          /\ (shape = <<4, 4, 4>> \/ d = <<1, 1, 1>>)
    /\ self = None /\ boundary = None /\ phi = None /\ Bfield = None
    /\ err = "" /\ log = <<>> /\ returned = <<>>
    /\ harness = NoHarness

NextE2E ==
    \/ Construct
    \/ Extrapolate

SpecE2E == InitE2E /\ [][NextE2E]_vars

\* the cell at the centre of a grid
centre(shape) == <<shape[1] \div 2, shape[2] \div 2, shape[3] \div 2>>

----------------------------------------------------------------------------
(* Repeated extrapolate() calls on one object, its grid square or not *)

RepeatShapes == {<<5, 5, 5>>, <<5, 6, 5>>}

InitRepeat ==
    /\ pc = "new"
    /\ \E shape \in RepeatShapes, V \in 1..MaxV :
          /\ magnetogram = Magnetogram(shape[1], shape[2], "flat", V, "G", <<0, 0>>,
                                       <<shape[1], shape[2]>>)
          /\ args = Arguments(shape[3], 1, "cm", "pixel")
    /\ los = <<0, 0, 1>>
    /\ self = None /\ boundary = None /\ phi = None /\ Bfield = None
    /\ err = "" /\ log = <<>> /\ returned = <<>>
    /\ harness = NoHarness

NextRepeat ==
    \/ Construct
    \/ Extrapolate

SpecRepeat == InitRepeat /\ [][NextRepeat]_vars

----------------------------------------------------------------------------
(* Differentiator harness: calculate_field on potentials handed in by the   *)
(* caller.  A potential is laid out as calculate_phi lays it out (line      *)
(* 221): phi[j, i, k] is the value at x = i * delta.x, y = j * delta.y,     *)
(* z = k * delta.z.                                                         *)

\* phi = a*x + b*y + c*z
linear_phi(shape, delta, co) ==
    [shape |-> shape,
     data |-> [idx \in Idx3(shape) |->
                 FP * (co[1] * idx[2] * delta[1] + co[2] * idx[1] * delta[2]
                       + co[3] * idx[3] * delta[3])]]

\* a potential whose stencil values differ from cell to cell
wavy_phi(shape) ==
    [shape |-> shape,
     data |-> [idx \in Idx3(shape) |->
                 12 * (idx[1] * idx[1] * idx[1] + 2 * idx[2] * idx[2] * idx[2]
                       + 3 * idx[3] * idx[3] * idx[3] + 5 * idx[1] * idx[2] * idx[3])]]

FieldShapes == {<<5, 5, 5>>, <<6, 5, 7>>, <<5, 6, 5>>, <<4, 5, 6>>, <<3, 3, 4>>}
Coefficients == {<<1, 0, 0>>, <<0, 1, 0>>, <<0, 0, 1>>, <<1, -2, 3>>}

\* a constructed PotentialField of the given grid, its magnetogram flat
FieldObject(shape, d) ==
    /\ magnetogram = Magnetogram(shape[1], shape[2], "flat", 1, "G", <<0, 0>>,
                                 <<shape[1] * d[1], shape[2] * d[2]>>)
    /\ args = Arguments(shape[3], d[3], "cm", "pixel")
    /\ self = PotentialField_init(magnetogram, args)
    /\ los = <<0, 0, 1>>

InitField ==
    /\ pc = "ready"
    /\ \E shape \in FieldShapes, d \in Deltas \X Deltas \X Deltas :
          /\ FieldObject(shape, d)
          /\ \/ \E co \in Coefficients :
                   /\ harness = [called |-> FALSE, kind |-> "linear", co |-> co]
                   /\ phi = linear_phi(shape, d, co)
             \/ /\ harness = [called |-> FALSE, kind |-> "wavy"]
                /\ phi = wavy_phi(shape)
    /\ boundary = None /\ Bfield = None
    /\ err = "" /\ log = <<"__init__">> /\ returned = <<>>

\* Bfield[:, :, :, i] for i = 0, 1, 2 of a returned field
components(B) == [i \in 0..2 |-> IF i = 0 THEN B.y.data ELSE IF i = 1 THEN B.x.data ELSE B.z.data]

\* lines 189-198 once more, on the field calculate_field has returned
ReapplyBoundary ==
    /\ pc = "ready"
    /\ Bfield # None
    /\ log = <<"calculate_field">>
    /\ Bfield' = spatial_pair(boundary_conditions(components(Bfield), Bfield.x.shape),
                              Bfield.x.shape)
    /\ returned' = <<Bfield>>
    /\ log' = <<"calculate_field", "boundary_conditions">>
    /\ UNCHANGED <<pc, magnetogram, args, los, self, boundary, phi, err, harness>>

NextField ==
    \/ CalculateField
    \/ ReapplyBoundary

SpecField == InitField /\ [][NextField]_vars

\* the field is not the same in every cell
Varies(f) == \E p1 \in DOMAIN f, p2 \in DOMAIN f : f[p1] # f[p2]

\* C4: for a potential phi = a*x + b*y + c*z, calculate_field returns
\* (B_x, B_y, B_z) = (-a, -b, -c) at every interior cell, for every grid shape
\* and every spacing, dx # dy included.
C4_LinearPotentialRecovered ==
    (harness.kind = "linear" /\ Bfield # None) =>
        \A idx \in Idx3(phi.shape) :
            Interior(phi.shape, idx) =>
                /\ Bfield.x.data[idx] = -(harness.co[1] * FP)
                /\ Bfield.y.data[idx] = -(harness.co[2] * FP)
                /\ Bfield.z.data[idx] = -(harness.co[3] * FP)

\* C10: applying the boundary copies of calculate_field, in the code's order,
\* to a field that calculate_field has already extended changes no cell.
C10_BoundaryCopiesIdempotent ==
    log = <<"calculate_field", "boundary_conditions">> => Bfield = returned[1]

C10_Witness ==
    /\ log = <<"calculate_field", "boundary_conditions">>
    /\ harness.kind = "wavy"
    /\ phi.shape = <<6, 5, 7>>
    /\ \A i \in 0..2 : Varies(components(returned[1])[i])
    /\ Bfield.x.data[<<0, 0, 0>>] # 0

----------------------------------------------------------------------------
(* The boundary conditions of one component, its twelve assignments applied *)
(* one at a time in an arbitrary order.                                     *)

CopyShapes == {<<6, 5, 5>>, <<4, 5, 5>>}

InitCopies ==
    /\ pc = "ready"
    /\ \E shape \in CopyShapes, d \in {<<1, 2, 3>>} :
          /\ FieldObject(shape, d)
          /\ harness = [called |-> FALSE, kind |-> "wavy"]
          /\ phi = wavy_phi(shape)
    /\ boundary = None /\ Bfield = None
    /\ err = "" /\ log = <<"__init__">> /\ returned = <<>>

\* lines 178-188 for component i, then the copies one by one
StartCopies ==
    /\ pc = "ready"
    /\ ~harness.called
    /\ Bfield = None
    /\ ~index_error(phi.shape)
    /\ \E i \in 0..2 :
          harness' = [called |-> TRUE, kind |-> harness.kind, i |-> i, done |-> {},
                      f |-> stencil(phi, self.delta)[i]]
    /\ pc' = "copying"
    /\ UNCHANGED <<magnetogram, args, los, self, boundary, phi, Bfield, err, log, returned>>

CopyStep ==
    /\ pc = "copying"
    /\ \E n \in (1..Len(copies)) \ harness.done :
          harness' = [harness EXCEPT
                        !.done = @ \cup {n},
                        !.f = copy(harness.f, phi.shape, copies[n][1], copies[n][2],
                                   copies[n][3])]
    /\ UNCHANGED <<pc, magnetogram, args, los, self, boundary, phi, Bfield, err, log, returned>>

NextCopies ==
    \/ CalculateField
    \/ StartCopies
    \/ CopyStep

SpecCopies == InitCopies /\ [][NextCopies]_vars

\* index j of an axis of length N moved into the slice 2:-2
clamp(N, j) == IF j < 2 THEN 2 ELSE IF j > N - 3 THEN N - 3 ELSE j
clamped(shape, idx) == [a \in 1..3 |-> clamp(shape[a], idx[a])]

\* along every axis, cells 0 and 1 equal cell 2 and cells N-2 and N-1 equal cell N-3
EdgesEqualNeighbour(f, shape) ==
    \A idx \in Idx3(shape), a \in 1..3 :
        /\ idx[a] <= 1 => f[idx] = f[[idx EXCEPT ![a] = 2]]
        /\ idx[a] >= shape[a] - 2 => f[idx] = f[[idx EXCEPT ![a] = shape[a] - 3]]

\* every cell is the stencil value g at the clamped index (the slice 2:-2 is
\* empty, and the field zero, when an axis has fewer than five cells)
EqualsClamped(f, g, shape) ==
    IF \A a \in 1..3 : shape[a] >= 5
    THEN \A idx \in Idx3(shape) : f[idx] = g[clamped(shape, idx)]
    ELSE \A idx \in Idx3(shape) : f[idx] = 0

\* C3: after calculate_field, for each component and along each axis, cells 0
\* and 1 equal cell 2 and cells N-2 and N-1 equal cell N-3; every cell, edges
\* and corners included, is the stencil value at the index clamped to [2, N-3]
\* on every axis, in whatever order the twelve copies of a component are applied.
C3_EdgesCopyNearestInterior ==
    /\ Bfield # None =>
          \A i \in 0..2 :
              /\ EdgesEqualNeighbour(components(Bfield)[i], phi.shape)
              /\ EqualsClamped(components(Bfield)[i], stencil(phi, self.delta)[i], phi.shape)
    /\ (pc = "copying" /\ harness.done = 1..Len(copies)) =>
          /\ EdgesEqualNeighbour(harness.f, phi.shape)
          /\ EqualsClamped(harness.f, stencil(phi, self.delta)[harness.i], phi.shape)

C3_Witness ==
    /\ pc = "copying"
    /\ harness.done = 1..Len(copies)
    /\ phi.shape = <<6, 5, 5>>
    /\ Varies(harness.f)
    /\ harness.f[<<0, 0, 0>>] = stencil(phi, self.delta)[harness.i][<<2, 2, 2>>]
    /\ harness.f[<<0, 0, 0>>] # 0
    /\ harness.f[<<5, 4, 4>>] # harness.f[<<0, 0, 0>>]

----------------------------------------------------------------------------
(* Kernel harness: one evaluation of greens_function as calculate_phi      *)
(* (lines 213-220) and PotentialField.calculate_phi (lines 140-144) call   *)
(* it, for grid point (i, j, k) and boundary cell (i_prime, j_prime).      *)

\* observer directions: normal, oblique and in-plane ones, and ones below the plane
LosVectors == {<<0, 0, 1>>, <<1, 0, 1>>, <<0, -1, 1>>, <<1, 1, 1>>, <<3, 0, 4>>,
               <<1, 0, 0>>, <<0, -1, 0>>, <<-1, 1, 0>>,
               <<0, 0, -1>>, <<1, 0, -1>>, <<0, 1, -1>>, <<-1, -1, -1>>}

InitGreen ==
    /\ pc = "kernel_call"
    /\ \E i \in Indices, j \in Indices, k \in Indices, i_prime \in Indices,
          j_prime \in Indices, dx \in Deltas, dy \in Deltas, dz \in Deltas :
          harness = [called |-> FALSE, i |-> i, j |-> j, k |-> k, i_prime |-> i_prime,
                   j_prime |-> j_prime, delta |-> <<dx, dy, dz>>]
    /\ los \in LosVectors
    /\ magnetogram = None /\ args = None /\ self = None
    /\ boundary = None /\ phi = None /\ Bfield = None
    /\ err = "" /\ log = <<>> /\ returned = <<>>

GreensFunction ==
    /\ pc = "kernel_call"
    /\ LET g == harness
           l_hat == l_hat_of(los)
           t == greens_terms(g.i * g.delta[1] * FP, g.j * g.delta[2] * FP,
                             g.k * g.delta[3] * FP,
                             g.i_prime * g.delta[1] * FP, g.j_prime * g.delta[2] * FP,
                             z_depth_of(g.delta[3]), l_hat)
       IN  /\ harness' = [g EXCEPT !.called = TRUE] @@
                          [l_hat |-> l_hat, t |-> t,
                           value |-> IF greens_raises(t) THEN 0 ELSE greens_value(t, l_hat)]
           /\ err' = IF greens_raises(t) THEN "ZeroDivisionError" ELSE ""
    /\ pc' = "kernel_done"
    /\ UNCHANGED <<magnetogram, args, los, self, boundary, phi, Bfield, log, returned>>

NextGreen == GreensFunction

SpecGreen == InitGreen /\ [][NextGreen]_vars

\* C1 as stated: for every grid point with k >= 0, every boundary cell, every
\* positive spacing and every unit line-of-sight vector, greens_function
\* divides by no zero: R_mag > 0 and R_mag * (R_mag + l.R) # 0.
C1_NoDivisionByZero ==
    pc = "kernel_done" => (harness.t.R_mag > 0 /\ harness.t.den2 # 0 /\ err = "")

\* C1 amended: the same for every unit line-of-sight vector whose z component
\* is not negative (the observer is not below the boundary plane).
C1_NoDivisionByZeroAbovePlane ==
    (pc = "kernel_done" /\ los[3] >= 0) =>
        (harness.t.R_mag > 0 /\ harness.t.den2 # 0 /\ err = "")

\* C1 witness: an oblique line of sight above the plane, the boundary cell right
\* under a grid point of the bottom layer, where only z_depth separates them.
C1_Witness ==
    /\ pc = "kernel_done"
    /\ los[3] >= 0 /\ los[1] # 0
    /\ harness.k = 0 /\ harness.i = harness.i_prime /\ harness.j = harness.j_prime
    /\ harness.t.R_mag = harness.delta[3] * InvSqrtTwoPi
    /\ harness.value # 0

----------------------------------------------------------------------------
(* Solver harness: the compiled calculate_phi (lines 211-223) on arrays as  *)
(* PotentialField.calculate_phi passes them (lines 137-150): phi is         *)
(* np.zeros((Nx, Ny, Nz)), boundary has the shape project_boundary gives.   *)

\* a boundary array: one unit impulse at the centre, or a value per cell
boundary_data(shp, kind) ==
    [idx \in Idx2(shp) |->
        CASE kind = "impulse" ->
                 IF idx = <<shp[1] \div 2, shp[2] \div 2>> THEN 1 ELSE 0
          [] kind = "ramp" -> 1 + idx[1] * shp[2] + idx[2]]

PhiShapes == {<<1, 1, 4>>, <<3, 3, 4>>, <<3, 3, 1>>, <<3, 2, 2>>, <<2, 3, 2>>, <<4, 4, 3>>,
              <<4, 2, 1>>, <<5, 3, 2>>}
PhiLos == {<<0, 0, 1>>, <<1, 0, 1>>}
Kinds == {"impulse", "ramp"}

InitPhi ==
    /\ pc = "phi_call"
    /\ \E shape \in PhiShapes, d \in Deltas \X Deltas \X Deltas, kind \in Kinds :
          /\ harness = [called |-> FALSE, kind |-> kind, shape |-> shape, delta |-> d]
          /\ boundary = [shape |-> meshgrid_shape(shape[1], shape[2]),
                         data |-> boundary_data(meshgrid_shape(shape[1], shape[2]), kind)]
    /\ los \in PhiLos
    /\ magnetogram = None /\ args = None /\ self = None
    /\ phi = None /\ Bfield = None
    /\ err = "" /\ log = <<>> /\ returned = <<>>

\* one call of the compiled function; writes past the buffer kill the process
\* or land in memory that is not the array's
SolvePhi ==
    /\ pc = "phi_call"
    /\ \E r \in {calculate_phi(zeros3(harness.shape), boundary, harness.delta,
                               harness.shape, l_hat_of(los))} :
          \/ /\ phi_stray(harness.shape)
             /\ pc' = "crashed"
             /\ err' = "SIGSEGV"
             /\ phi' = phi
          \/ /\ pc' = "phi_done"
             /\ err' = r.err
             /\ phi' = IF r.err = "" THEN r.value ELSE phi
    /\ harness' = [harness EXCEPT !.called = TRUE]
    /\ log' = <<"calculate_phi">>
    /\ UNCHANGED <<magnetogram, args, los, self, boundary, Bfield, returned>>

NextPhi == SolvePhi

SpecPhi == InitPhi /\ [][NextPhi]_vars

\* the index triple of the cell at an offset of a C-contiguous buffer
cell_at(shape, o) ==
    <<o \div (shape[2] * shape[3]), (o \div shape[3]) % shape[2], o % shape[3]>>

\* the cell the code stores grid point (i, j, k) in, where it lies in the buffer
stored(i, j, k) ==
    phi.data[cell_at(harness.shape, offset(harness.shape, j, i, k))]

\* the grid point above the centre of the boundary
ic == harness.shape[1] \div 2
jc == harness.shape[2] \div 2

----------------------------------------------------------------------------
(* The loop of calculate_phi over the grid points (lines 213-215) divided   *)
(* between two workers that share phi.  Each worker takes its grid points   *)
(* in loop order; the additions of lines 217-221 for one grid point are     *)
(* taken as one load of phi[j, i, k] and one store of the loaded value plus *)
(* the sum over the boundary cells.                                         *)

Workers == {0, 1}
WorkerShapes == {<<2, 2, 1>>, <<2, 2, 2>>, <<3, 3, 1>>, <<3, 2, 1>>, <<4, 2, 1>>, <<2, 3, 1>>}
Splits == {"i", "j"}

\* the worker of a grid point: the range of the split loop is cut in two halves
worker_of(shape, split, g) ==
    IF split = "i" THEN (IF 2 * g.i < shape[1] THEN 0 ELSE 1)
    ELSE (IF 2 * g.j < shape[2] THEN 0 ELSE 1)

\* the loop positions of a worker, in loop order
chunk(shape, split, w) ==
    SelectSeq([n \in 1..size(shape) |-> n - 1],
              LAMBDA n : worker_of(shape, split, grid_point(shape, n)) = w)

InitWorkers ==
    /\ pc = "working"
    /\ \E shape \in WorkerShapes, split \in Splits :
          /\ harness = [called |-> FALSE, kind |-> "ramp", shape |-> shape,
                        delta |-> <<1, 1, 1>>, split |-> split,
                        todo |-> [w \in Workers |-> chunk(shape, split, w)],
                        reg |-> [w \in Workers |-> None],
                        writers |-> [o \in 0..(size(shape) - 1) |-> {}]]
          /\ boundary = [shape |-> meshgrid_shape(shape[1], shape[2]),
                         data |-> boundary_data(meshgrid_shape(shape[1], shape[2]), "ramp")]
          /\ phi = zeros3(shape)
    /\ los = <<0, 0, 1>>
    /\ magnetogram = None /\ args = None /\ self = None /\ Bfield = None
    /\ err = "" /\ log = <<>> /\ returned = <<>>

\* where the next grid point of worker w is stored
target(w) ==
    LET g == grid_point(harness.shape, Head(harness.todo[w]))
    IN  offset(harness.shape, g.j, g.i, g.k)

\* worker w reads phi[j, i, k] of its next grid point
WorkerLoad(w) ==
    /\ pc = "working"
    /\ harness.todo[w] # <<>>
    /\ harness.reg[w] = None
    /\ target(w) < size(harness.shape)
    /\ harness' = [harness EXCEPT !.called = TRUE,
                     !.reg[w] = [value |-> phi.data[cell_at(harness.shape, target(w))]]]
    /\ UNCHANGED <<pc, magnetogram, args, los, self, boundary, phi, Bfield, err, log, returned>>

\* worker w writes phi[j, i, k] of its next grid point and moves on
WorkerStore(w) ==
    /\ pc = "working"
    /\ harness.todo[w] # <<>>
    /\ harness.reg[w] # None
    /\ \E s \in {accumulate(boundary, harness.shape, harness.delta, l_hat_of(los),
                            grid_point(harness.shape, Head(harness.todo[w])),
                            0, harness.shape[1] * harness.shape[2] - 1).sum} :
          phi' = [phi EXCEPT !.data[cell_at(harness.shape, target(w))] =
                                 harness.reg[w].value + s]
    /\ harness' = [harness EXCEPT !.todo[w] = Tail(@), !.reg[w] = None,
                     !.writers[target(w)] = @ \cup {w}]
    /\ UNCHANGED <<pc, magnetogram, args, los, self, boundary, Bfield, err, log, returned>>

\* the next grid point of worker w lies past the end of the buffer: the
\* process is killed, or the addition lands in memory that is not the array's
WorkerStray(w) ==
    /\ pc = "working"
    /\ harness.todo[w] # <<>>
    /\ target(w) >= size(harness.shape)
    /\ \/ /\ pc' = "crashed"
          /\ err' = "SIGSEGV"
          /\ harness' = [harness EXCEPT !.called = TRUE]
       \/ /\ pc' = pc
          /\ err' = err
          /\ harness' = [harness EXCEPT !.called = TRUE, !.todo[w] = Tail(@)]
    /\ UNCHANGED <<magnetogram, args, los, self, boundary, phi, Bfield, log, returned>>

NextWorkers ==
    \E w \in Workers :
        \/ WorkerLoad(w)
        \/ WorkerStore(w)
        \/ WorkerStray(w)

SpecWorkers == InitWorkers /\ [][NextWorkers]_vars

\* both workers have finished their grid points
WorkersDone == pc = "working" /\ \A w \in Workers : harness.todo[w] = <<>>

\* C12: when the loop over the grid points is divided among parallel workers,
\* for every grid shape no potential cell is written by two different workers
\* (nor read by one and written by another), and every interleaving yields the
\* potential array of the sequential loop.
C12_WorkersShareNoCell ==
    /\ pc = "working" =>
          \A o \in DOMAIN harness.writers : Cardinality(harness.writers[o]) <= 1
    /\ WorkersDone =>
          phi = calculate_phi(zeros3(harness.shape), boundary, harness.delta,
                              harness.shape, l_hat_of(los)).value

----------------------------------------------------------------------------
(* Claims on the solver harness and on the two workers *)

\* the sum over all boundary cells (i_prime, j_prime), each taken once, of
\* boundary value * Green * dx * dy for the grid point (i, j, k); the boundary
\* value of the cell at x' = i_prime * dx, y' = j_prime * dy is
\* boundary[j_prime, i_prime]
double_sum(i, j, k) ==
    LET shape == harness.shape
        d == harness.delta
        l_hat == l_hat_of(los)
        g == [i |-> i, j |-> j, k |-> k]
        G(ip, jp) == greens_value(kernel(shape, d, l_hat, g,
                                         [i_prime |-> ip, j_prime |-> jp]), l_hat)
    IN  SumTo([ip \in 0..(shape[1] - 1) |->
                 SumTo([jp \in 0..(shape[2] - 1) |->
                          boundary.data[<<jp, ip>>] * G(ip, jp) * d[1] * d[2]],
                       shape[2])],
              shape[1])

\* C13: for every grid point (x, y, z) = (i*dx, j*dy, k*dz), the potential cell
\* that calculate_phi stores for that point equals the sum, over all Nx*Ny
\* boundary cells each taken exactly once, of boundary value * Green * dx * dy,
\* the boundary value read at the cell the kernel was evaluated for.
C13_CellIsDoubleSum ==
    (pc = "phi_done" /\ err = "") =>
        \A i \in 0..(harness.shape[1] - 1), j \in 0..(harness.shape[2] - 1),
           k \in 0..(harness.shape[3] - 1) :
            /\ offset(harness.shape, j, i, k) < size(harness.shape)
            /\ stored(i, j, k) = double_sum(i, j, k)

\* every index of a write phi[j, i, k] lies inside the dimensions of phi
writes_in_bounds(shape, p) ==
    \A n \in 0..(size(shape) - 1) :
        LET g == grid_point(shape, n)
        IN  g.j < p.shape[1] /\ g.i < p.shape[2] /\ g.k < p.shape[3]

\* every index of a read boundary[j_prime, i_prime] lies inside the dimensions of boundary
reads_in_bounds(shape, b) ==
    \A n \in 0..(shape[1] * shape[2] - 1) :
        LET c == boundary_cell(shape, n)
        IN  c.j_prime < b.shape[1] /\ c.i_prime < b.shape[2]

\* C15: for every grid shape Nx, Ny, Nz >= 1, Nx # Ny included, every write
\* phi[j, i, k] and every read boundary[j', i'] of calculate_phi uses indices
\* inside the dimensions of the arrays PotentialField.calculate_phi passes.
C15_IndicesInsideArrays ==
    (harness.called /\ pc \in {"phi_done", "crashed"}) =>
        /\ writes_in_bounds(harness.shape, zeros3(harness.shape))
        /\ reads_in_bounds(harness.shape, boundary)
        /\ pc # "crashed"

\* -(p[.. - 2] - 8 p[.. - 1] + 8 p[.. + 1] - p[.. + 2]) / 12 / h along position a
difference(p, idx, a, h) ==
    Div(Div(-(p.data[Shift(idx, a, -2)] - 8 * p.data[Shift(idx, a, -1)]
              + 8 * p.data[Shift(idx, a, 1)] - p.data[Shift(idx, a, 2)]), 12), h)

\* C14: the component calculate_field returns as x is the five-point difference
\* of the potential along the array axis calculate_phi indexes by the x grid
\* index (the second axis of phi[j, i, k]) divided by 12*dx, the component
\* returned as y the difference along the axis indexed by the y grid index
\* (the first) divided by 12*dy, and z likewise with dz, dx # dy included.
C14_AxesAgree ==
    (Bfield # None /\ log = <<"calculate_field">>) =>
        \A idx \in Idx3(phi.shape) :
            Interior(phi.shape, idx) =>
                /\ Bfield.x.data[idx] = difference(phi, idx, 2, self.delta[1])
                /\ Bfield.y.data[idx] = difference(phi, idx, 1, self.delta[2])
                /\ Bfield.z.data[idx] = difference(phi, idx, 3, self.delta[3])

\* the magnetogram pixel (column, row) whose value is entry n of data.flatten()
value_pixel(m, n) == <<n % m.nx, n \div m.nx>>

\* C16: in project_boundary, for every magnetogram shape (Nx columns, Ny rows),
\* Nx # Ny included, the n-th scattered source point and the n-th field value
\* refer to the same magnetogram pixel, every pixel index generated lies inside
\* the magnetogram, and every pixel appears exactly once.
C16_PointsPairWithValues ==
    (pc = "ready" /\ log = <<"project_boundary">> /\ err = "") =>
        LET Nx == self.shape[1]
            Ny == self.shape[2]
            N == 0..(Nx * Ny - 1)
        IN  /\ \A n \in N : pixels(Nx, Ny, n) = value_pixel(magnetogram, n)
            /\ \A n \in N : pixels(Nx, Ny, n)[1] < magnetogram.nx
                            /\ pixels(Nx, Ny, n)[2] < magnetogram.ny
            /\ \A px \in (0..(magnetogram.nx - 1)) \X (0..(magnetogram.ny - 1)) :
                   Cardinality({n \in N : pixels(Nx, Ny, n) = px}) = 1

-----------------------------------------------------------------------------
(* Observer, observe.py, and InstrumentSDOAIA, instruments/sdo.py.          *)
(* A counts file holds one dataset per quantity and per channel; a dataset  *)
(* has one row per observing time and one column per interpolated           *)
(* coordinate. The assignments of commit take all rows, so a dataset is     *)
(* kept by column: each column holds the loop and the column of the stored  *)
(* array it was last assigned from.                                         *)

MaxChannels == 2    \* channels of an instrument: the first MaxChannels of the six

\* InstrumentSDOAIA.channels with the names of _setup_channels
channel_names == <<"94", "131", "171", "193", "211", "335">>
channels == SubSeq(channel_names, 1, IF MaxChannels < 6 THEN MaxChannels ELSE 6)

\* the quantities _flatten_detector_counts_serial commits before the channels
quantities == <<"los_velocity", "electron_temperature", "ion_temperature", "density">>

Range(s) == {s[n] : n \in DOMAIN s}

\* build_detector_file: one dataset for each quantity and each channel
dataset_names == Range(quantities) \cup Range(channels)

NoShort == <<0, "">>
Unwritten == <<0, 0>>

\* int(np.ceil(loop.full_length/ds))
n_interp(loop, ds) == (loop.full_length + ds - 1) \div ds

\* _interpolate_loops: the length of total_coordinates and the length of the
\* interpolated coordinate of each loop
_interpolate_loops(field, ds) ==
    LET n == [l \in 1..Len(field.loops) |-> n_interp(field.loops[l], ds)]
    IN  [total_coordinates |-> SumRange(n, 1, Len(n)),
         interpolated_loop_coordinates |-> n]

\* instr.build_detector_file for dset_shape: the file with its time dataset
\* and an empty dataset of dset_shape for each name
build_detector_file(time, dset_shape) ==
    [time |-> time,
     rows |-> dset_shape[1],
     width |-> dset_shape[2],
     coordinates |-> 0,
     dsets |-> [name \in dataset_names |->
                   [units |-> "",
                    data |-> [col \in 0..(dset_shape[2] - 1) |-> Unwritten],
                    written |-> <<>>]]]

\* build_detector_files for one instrument, lines 95-101
build_instrument(instr, time, total_coordinates) ==
    LET dset_shape == <<Len(instr.observing_time), total_coordinates>>
    IN  [build_detector_file(time, dset_shape) EXCEPT !.coordinates = total_coordinates]

\* the array interpolate_and_store returns for a quantity or a channel of loop
\* l: y.shape[1] is the length of the loop's interpolated coordinate, one less
\* for the array named by short
interpolate_and_store(name, l, interp_s, short) ==
    [unit |-> name,
     loop |-> l,
     cols |-> IF short = <<l, name>> THEN interp_s - 1 ELSE interp_s]

\* a variant of commit that assigns every array from column 0
commit_mutant(y, dset, start_index) ==
    [units |-> IF dset.units = "" THEN y.unit ELSE dset.units,
     data |-> [col \in DOMAIN dset.data |->
                  IF col < y.cols THEN <<y.loop, col>> ELSE dset.data[col]],
     written |-> Append(dset.written, <<0, y.cols>>)]

\* Observer.commit, lines 133-136
commit(y, dset, start_index) ==
    [units |-> IF dset.units = "" THEN y.unit ELSE dset.units,
     data |-> [col \in DOMAIN dset.data |->
                  IF start_index <= col /\ col < start_index + y.cols
                  THEN <<y.loop, col - start_index>>
                  ELSE dset.data[col]],
     written |-> Append(dset.written, <<start_index, start_index + y.cols>>)]

RECURSIVE serial_loops(_, _, _, _, _)
\* the datasets and start_index after the first n loops of lines 119-130 (names:
\* all datasets) or of sdo.py lines 181-185 (names: one channel)
serial_loops(dsets, names, interp, short, n) ==
    IF n = 0 THEN [dsets |-> dsets, start_index |-> 0]
    ELSE LET before == serial_loops(dsets, names, interp, short, n - 1)
             start_index == before.start_index
         IN  [dsets |-> [name \in DOMAIN dsets |->
                            IF name \in names
                            THEN commit(interpolate_and_store(name, n, interp[n], short),
                                        before.dsets[name], start_index)
                            ELSE before.dsets[name]],
              start_index |-> start_index + interp[n]]

\* _flatten_detector_counts_serial for one instrument, lines 117-130
flatten_detector_counts_serial(file, interp, short) ==
    [file EXCEPT !.dsets = serial_loops(file.dsets, dataset_names, interp, short,
                                        Len(interp)).dsets]

\* InstrumentSDOAIA.flatten_serial, sdo.py lines 177-185: every channel starts
\* again at column 0
flatten_serial(file, interp, short) ==
    [file EXCEPT !.dsets = serial_loops(file.dsets, Range(channels), interp, short,
                                        Len(interp)).dsets]

RECURSIVE procedures(_, _, _)
\* delayed_procedures of lines 148-162 after the first n loops: for each loop
\* the four quantities, then what instr.flatten returns for the channels
procedures(interp, short, n) ==
    IF n = 0 THEN <<>>
    ELSE procedures(interp, short, n - 1)
         \o [q \in 1..Len(quantities) |->
                [key |-> quantities[q],
                 y |-> interpolate_and_store(quantities[q], n, interp[n], short)]]
         \o [q \in 1..Len(channels) |->
                [key |-> channels[q],
                 y |-> interpolate_and_store(channels[q], n, interp[n], short)]]

\* lines 164-165: sorted by key (a stable sort), then grouped by key
grouped(delayed_procedures) ==
    [key \in {delayed_procedures[n].key : n \in DOMAIN delayed_procedures} |->
        LET same(e) == e.key = key
            group == SelectSeq(delayed_procedures, same)
        IN  [n \in 1..Len(group) |-> group[n].y]]

RECURSIVE assemble_key(_, _, _)
\* lines 177-182 for one key: the dataset and start_index after the first n
\* arrays
assemble_key(dset, arrays, n) ==
    IF n = 0 THEN [dset |-> dset, start_index |-> 0]
    ELSE LET before == assemble_key(dset, arrays, n - 1)
             tmp == arrays[n]
         IN  [dset |-> commit(tmp, before.dset, before.start_index),
              start_index |-> before.start_index + tmp.cols]

\* Observer.assemble_arrays, lines 173-182
assemble_arrays(delayed_procedures, file) ==
    [file EXCEPT !.dsets =
        [name \in DOMAIN file.dsets |->
            IF name \in DOMAIN delayed_procedures
            THEN assemble_key(file.dsets[name], delayed_procedures[name],
                              Len(delayed_procedures[name])).dset
            ELSE file.dsets[name]]]

\* i_time before its first assignment
Unbound == -1

\* np.where(reference_time == time)[0]
where(reference_time, time) ==
    {n \in 0..(Len(reference_time) - 1) : reference_time[n + 1] = time}

\* lines 200-204: the first index at which reference_time equals time; when
\* there is none the IndexError is logged and i_time keeps what it held
lookup(reference_time, time, i_time) ==
    LET found == where(reference_time, time)
    IN  IF found = {} THEN i_time
        ELSE CHOOSE n \in found : \A m \in found : n <= m

\* fn_template.format(instr=..., channel=..., i_time=...)
fn_template(instr, channel, i_time) == <<instr, channel, i_time>>

RECURSIVE bin_channels(_, _, _, _, _, _)
\* lines 205-213 for the first n channels of instr at observing time time.
\* The name i_time is read at line 206: unbound, that raises. Serially detect
\* reads row i_time of the channel's dataset (sdo.py line 228), which raises
\* past the last row, and the map is saved at once; in parallel detect and
\* assemble_map are delayed.
bin_channels(st, instr, file, time, parallel, n) ==
    IF n = 0 THEN st
    ELSE LET before == bin_channels(st, instr, file, time, parallel, n - 1)
             channel == instr.channels[n]
             observed_map == [instr |-> instr.name,
                              channel |-> channel,
                              i_time |-> before.i_time,
                              fn |-> fn_template(instr.name, channel, before.i_time),
                              t_obs |-> time]
         IN  IF before.err # "" THEN before
             ELSE IF before.i_time = Unbound
             THEN [before EXCEPT !.err = "UnboundLocalError"]
             ELSE IF ~parallel /\ before.i_time >= file.rows
             THEN [before EXCEPT !.err = "index out of range"]
             ELSE [before EXCEPT !.maps = Append(@, observed_map)]

RECURSIVE bin_times(_, _, _, _, _)
\* lines 199-213 for the first n observing times of instr
bin_times(st, instr, file, parallel, n) ==
    IF n = 0 THEN st
    ELSE LET before == bin_times(st, instr, file, parallel, n - 1)
             time == instr.observing_time[n]
             absent == where(file.time, time) = {}
             looked == [before EXCEPT
                           !.i_time = lookup(file.time, time, @),
                           !.exceptions = IF absent THEN Append(@, <<instr.name, time>>)
                                                    ELSE @]
         IN  IF before.err # "" THEN before
             ELSE bin_channels(looked, instr, file, time, parallel, Len(instr.channels))

RECURSIVE bin_instruments(_, _, _, _, _)
\* lines 196-213 for the first n instruments
bin_instruments(st, instruments, files, parallel, n) ==
    IF n = 0 THEN st
    ELSE LET before == bin_instruments(st, instruments, files, parallel, n - 1)
             instr == instruments[n]
         IN  IF before.err # "" THEN before
             ELSE bin_times(before, instr, files[instr.name], parallel,
                            Len(instr.observing_time))

\* Observer.bin_detector_counts, lines 190-215
bin_detector_counts(obs, files) ==
    bin_instruments([i_time |-> Unbound, maps |-> <<>>, err |-> "", exceptions |-> <<>>],
                    obs.instruments, files, obs.parallel, Len(obs.instruments))

\* delayed_procedures of line 195 as returned at line 215
by_instrument(obs, maps) ==
    [name \in {obs.instruments[n].name : n \in DOMAIN obs.instruments} |->
        LET of_instr(m) == m.instr = name
        IN  SelectSeq(maps, of_instr)]

-----------------------------------------------------------------------------
(* The observer: build_detector_files, then flatten_detector_counts (and    *)
(* the computation of what it returns when parallel) or flatten_serial,     *)
(* then bin_detector_counts.                                                *)

LoopLengths == {<<1>>, <<2, 3>>, <<3, 1, 2>>}
Resolutions == {1, 2}
ObservingTimes == {<<0, 1>>, <<2, 0>>, <<1>>}
ReferenceTimes == {<<0, 1>>, <<0, 1, 2>>, <<0>>}
InstrumentNames == <<"SDO_AIA", "Hinode_XRT">>

Instrument(name, observing_time) ==
    [name |-> name, observing_time |-> observing_time, channels |-> channels]

Shorts(lengths) == {NoShort} \cup ((1..Len(lengths)) \X dataset_names)

InitObserver ==
    /\ pc = "observer"
    /\ \E lengths \in LoopLengths, parallel \in BOOLEAN, count \in 1..Len(InstrumentNames) :
       \E observing \in [1..count -> ObservingTimes],
          time \in [{InstrumentNames[n] : n \in 1..count} -> ReferenceTimes],
          ds \in Resolutions, short \in Shorts(lengths) :
          /\ self = [parallel |-> parallel,
                     field |-> [loops |-> [l \in 1..Len(lengths) |->
                                             [name |-> l, full_length |-> lengths[l]]]],
                     instruments |-> [n \in 1..count |->
                                        Instrument(InstrumentNames[n], observing[n])],
                     _interpolated_loop_coordinates |-> <<>>]
          /\ harness = [called |-> FALSE, ds |-> ds, time |-> time, short |-> short,
                        total_coordinates |-> 0, files |-> <<>>, maps |-> <<>>,
                        exceptions |-> <<>>]
    /\ magnetogram = None
    /\ args = None
    /\ los = None
    /\ boundary = None
    /\ phi = None
    /\ Bfield = None
    /\ err = ""
    /\ log = <<>>
    /\ returned = None

\* Observer.build_detector_files, lines 87-102
BuildDetectorFiles ==
    /\ pc = "observer"
    /\ \E r \in {_interpolate_loops(self.field, harness.ds)} :
          /\ self' = [self EXCEPT !._interpolated_loop_coordinates =
                                      r.interpolated_loop_coordinates]
          /\ harness' = [harness EXCEPT
                 !.total_coordinates = r.total_coordinates,
                 !.files = [name \in DOMAIN harness.time |->
                              LET instr == CHOOSE x \in Range(self.instruments) :
                                               x.name = name
                              IN  build_instrument(instr, harness.time[name],
                                                   r.total_coordinates)]]
    /\ pc' = "built"
    /\ log' = Append(log, "build_detector_files")
    /\ UNCHANGED <<magnetogram, args, los, boundary, phi, Bfield, err, returned>>

\* Observer.flatten_detector_counts, lines 104-130 and 138-170
FlattenDetectorCounts ==
    /\ pc = "built"
    /\ IF self.parallel
       THEN /\ returned' = [name \in DOMAIN harness.files |->
                              grouped(procedures(self._interpolated_loop_coordinates,
                                                 harness.short,
                                                 Len(self._interpolated_loop_coordinates)))]
            /\ pc' = "delayed"
            /\ UNCHANGED harness
       ELSE /\ harness' = [harness EXCEPT
                   !.called = TRUE,
                   !.files = [name \in DOMAIN harness.files |->
                                flatten_detector_counts_serial(
                                    harness.files[name],
                                    self._interpolated_loop_coordinates,
                                    harness.short)]]
            /\ pc' = "flattened"
            /\ UNCHANGED returned
    /\ log' = Append(log, "flatten_detector_counts")
    /\ UNCHANGED <<magnetogram, args, los, self, boundary, phi, Bfield, err>>

\* the computation of the array_assembly flatten_detector_counts returned:
\* Observer.assemble_arrays for every instrument
AssembleArrays ==
    /\ pc = "delayed"
    /\ harness' = [harness EXCEPT
           !.called = TRUE,
           !.files = [name \in DOMAIN harness.files |->
                        assemble_arrays(returned[name], harness.files[name])]]
    /\ pc' = "flattened"
    /\ log' = Append(log, "assemble_arrays")
    /\ UNCHANGED <<magnetogram, args, los, self, boundary, phi, Bfield, err, returned>>

\* InstrumentSDOAIA.flatten_serial on the instrument's counts file
FlattenSerial ==
    /\ pc = "built"
    /\ harness' = [harness EXCEPT
           !.called = TRUE,
           !.files = [name \in DOMAIN harness.files |->
                        flatten_serial(harness.files[name],
                                       self._interpolated_loop_coordinates,
                                       harness.short)]]
    /\ pc' = "flattened"
    /\ log' = Append(log, "flatten_serial")
    /\ UNCHANGED <<magnetogram, args, los, self, boundary, phi, Bfield, err, returned>>

\* Observer.bin_detector_counts, lines 190-215
BinDetectorCounts ==
    /\ pc = "flattened"
    /\ \E r \in {bin_detector_counts(self, harness.files)} :
          /\ pc' = IF r.err = "" THEN "binned" ELSE "failed"
          /\ err' = r.err
          /\ harness' = [harness EXCEPT
                 !.maps = IF self.parallel THEN <<>> ELSE r.maps,
                 !.exceptions = r.exceptions]
          /\ returned' = IF r.err = "" /\ self.parallel
                         THEN by_instrument(self, r.maps)
                         ELSE None
    /\ log' = Append(log, "bin_detector_counts")
    /\ UNCHANGED <<magnetogram, args, los, self, boundary, phi, Bfield>>

NextObserver ==
    \/ BuildDetectorFiles
    \/ FlattenDetectorCounts
    \/ AssembleArrays
    \/ FlattenSerial
    \/ BinDetectorCounts

SpecObserver == InitObserver /\ [][NextObserver]_vars

-----------------------------------------------------------------------------
(* Claims on the observer *)

\* the maps bin_detector_counts saved, or returned to be saved
built_maps ==
    IF pc = "binned" /\ self.parallel
    THEN UNION {Range(returned[name]) : name \in DOMAIN returned}
    ELSE Range(harness.maps)

\* C17: in bin_detector_counts every map built for an observing time t uses
\* the index i_time at which the reference time of the counts file equals t;
\* for an observing time absent from the reference time no map is built or
\* saved with an undefined index or with the index of another time.
C17_MapsUseIndexOfTheirTime ==
    (pc \in {"binned", "failed"}) =>
        \A m \in built_maps :
            LET reference_time == harness.files[m.instr].time
            IN  /\ m.i_time # Unbound
                /\ m.i_time < Len(reference_time)
                /\ reference_time[m.i_time + 1] = m.t_obs

\* the datasets of a counts file that flattening has written to
written_datasets(file) == {name \in DOMAIN file.dsets : file.dsets[name].written # <<>>}

\* C18: when counts are flattened and each stored array has as many columns as
\* its loop's interpolated coordinate, the column ranges written to a dataset
\* for successive loops start at 0, are contiguous and pairwise disjoint,
\* follow the order of field.loops, and the last one ends at
\* len(total_coordinates), the width of the dataset.
C18_RangesTileTheDataset ==
    (pc = "flattened" /\ harness.short = NoShort) =>
        \A name \in DOMAIN harness.files :
            LET file == harness.files[name]
                interp == self._interpolated_loop_coordinates
            IN  \A d \in written_datasets(file) :
                    LET w == file.dsets[d].written
                    IN  /\ Len(w) = Len(self.field.loops)
                        /\ w[1][1] = 0
                        /\ \A l \in 1..Len(w) : w[l][2] = w[l][1] + interp[l]
                        /\ \A l \in 1..(Len(w) - 1) : w[l + 1][1] = w[l][2]
                        /\ \A l \in 1..Len(w) : \A m \in 1..Len(w) :
                               l # m => (w[l][1]..(w[l][2] - 1)) \cap (w[m][1]..(w[m][2] - 1)) = {}
                        /\ w[Len(w)][2] = harness.total_coordinates
                        /\ harness.total_coordinates = file.width
                        /\ \A l \in 1..Len(w) : \A col \in w[l][1]..(w[l][2] - 1) :
                               file.dsets[d].data[col] = <<l, col - w[l][1]>>

C18_Witness ==
    /\ pc = "flattened"
    /\ harness.short = NoShort
    /\ Len(self.field.loops) = 3
    /\ \E name \in DOMAIN harness.files :
           /\ written_datasets(harness.files[name]) # {}
           /\ \A d \in written_datasets(harness.files[name]) :
                  Len(harness.files[name].dsets[d].written) = 3

====
